---- MODULE Spec2Model ----
(***************************************************************************)
(* A model of django-cloudinary-storage: the storage adapters of           *)
(* cloudinary_storage/base.py and cloudinary_storage/storage.py.           *)
(*                                                                         *)
(* Strings are sequences of one-character strings, so that prefixes,       *)
(* splitting, slicing and case folding are computed as the code computes   *)
(* them.  Python's None is the empty sequence <<>> of an optional value    *)
(* and <<v>> is the value v.                                               *)
(***************************************************************************)
EXTENDS Integers, Sequences, FiniteSets, TLC

VARIABLES
    environ,          \* os.environ: the variables that are set
    user_settings,    \* settings.CLOUDINARY_STORAGE (base.py:14)
    prefix,           \* self.prefix of the adapters
    remote,           \* the remote account: (resource type, public id) -> content
    exists_attr,      \* what self.exists is bound to on the hashed adapter
    pp_pc,            \* where the post_process generator stands
    original_exists,  \* the generator's local original_exists
    hashed_files,     \* self.hashed_files of the hashed adapter
    manifest_fs,      \* the files under staticfiles_manifest_root
    os_name,          \* os.name
    saved_paths,      \* history: self.hashed_files as save_manifest left it
    call              \* the last operation: its arguments, requests, result

vars == <<environ, user_settings, prefix, remote, exists_attr, pp_pc,
          original_exists, hashed_files, manifest_fs, os_name, saved_paths, call>>

processVars == <<environ, user_settings>>
adapterVars == <<prefix, remote, exists_attr, pp_pc, original_exists>>
manifestVars == <<hashed_files, manifest_fs, os_name, saved_paths>>

----------------------------------------------------------------------------
(* Bounds of the model. *)

MaxSegments == 3
MaxOverrides == 2
MaxResources == 2
MaxHashed == 2

----------------------------------------------------------------------------
(* Python's str operations. *)

None == <<>>
Some(v) == <<v>>

\* an empty dict
EmptyMap == [k \in {} |-> <<>>]

\* str.startswith
StartsWith(s, p) == Len(p) <= Len(s) /\ SubSeq(s, 1, Len(p)) = p

\* s[:n], with Python's treatment of a negative or too large stop
SliceTo(s, n) ==
    LET len == Len(s)
        stop == IF n < 0 THEN (IF len + n < 0 THEN 0 ELSE len + n)
                ELSE (IF n > len THEN len ELSE n)
    IN  SubSeq(s, 1, stop)

\* str.lower on one character
LowerChar(c) ==
    CASE c = "P" -> "p" [] c = "N" -> "n" [] c = "G" -> "g"
      [] c = "M" -> "m" [] c = "O" -> "o" [] c = "V" -> "v"
      [] OTHER -> c

\* str.lower
Lower(s) == [i \in 1..Len(s) |-> LowerChar(s[i])]

\* str.replace(from, to) for one-character from and to
Replace(s, from, to) == [i \in 1..Len(s) |-> IF s[i] = from THEN to ELSE s[i]]

\* str.split(sep) for a one-character sep: the pieces between the separators
RECURSIVE SplitFrom(_, _, _, _)
SplitFrom(s, sep, i, cur) ==
    IF i > Len(s) THEN <<cur>>
    ELSE IF s[i] = sep THEN <<cur>> \o SplitFrom(s, sep, i + 1, <<>>)
    ELSE SplitFrom(s, sep, i + 1, Append(cur, s[i]))

Split(s, sep) == SplitFrom(s, sep, 1, <<>>)

\* str.lstrip(ch)
RECURSIVE LStrip(_, _)
LStrip(s, ch) ==
    IF s # <<>> /\ Head(s) = ch THEN LStrip(Tail(s), ch) ELSE s

\* str.rstrip(ch)
RECURSIVE RStrip(_, _)
RStrip(s, ch) ==
    IF s # <<>> /\ s[Len(s)] = ch THEN RStrip(SubSeq(s, 1, Len(s) - 1), ch) ELSE s

\* str.rfind(ch) + 1: the position of the last ch, 0 when there is none
RFind1(s, ch) ==
    LET at == {i \in 1..Len(s) : s[i] = ch}
    IN  IF at = {} THEN 0 ELSE CHOOSE i \in at : \A j \in at : j <= i

\* os.path.dirname (posixpath)
dirname(p) ==
    LET head == SubSeq(p, 1, RFind1(p, "/"))
    IN  IF head # <<>> /\ RStrip(head, "/") # <<>> THEN RStrip(head, "/") ELSE head

\* os.path.basename (posixpath)
basename(p) == SubSeq(p, RFind1(p, "/") + 1, Len(p))

----------------------------------------------------------------------------
(* BaseStorage: names. *)

RESOURCE_TYPES == [IMAGE |-> "image", RAW |-> "raw", VIDEO |-> "video"]

static_images_extensions == {<<"p", "n", "g">>, <<"g", "i", "f">>}
static_videos_extensions == {<<"m", "p", "4">>, <<"m", "o", "v">>}

\* variant: the slice keeps one character too many
get_available_name_off_by_one(name, max_length) ==
    IF max_length = None THEN name ELSE SliceTo(name, max_length[1] + 1)

get_available_name(name, max_length) ==
    IF max_length = None THEN name ELSE SliceTo(name, max_length[1])

_normalize_path(path) ==
    IF path # <<>> /\ path[Len(path)] # "/" THEN Append(path, "/") ELSE path

_prepend_prefix_of(pfx, name) ==
    LET p == _normalize_path(LStrip(pfx, "/"))
    IN  IF ~StartsWith(name, p) THEN p \o name ELSE name

_normalise_name(name) == Replace(name, "\\", "/")

\* HashedFilesMixin.clean_name, copied into the static adapter
clean_name(name) == Replace(name, "\\", "/")

----------------------------------------------------------------------------
(* StaticCloudinaryStorage: resource types by extension. *)

\* variant: the extension is not lowercased
_get_file_extension_case_sensitive(name) ==
    LET substrings == Split(name, ".")
    IN  IF Len(substrings) = 1 THEN None ELSE Some(substrings[Len(substrings)])

_get_file_extension(name) ==
    LET substrings == Split(name, ".")
    IN  IF Len(substrings) = 1 THEN None ELSE Some(Lower(substrings[Len(substrings)]))

_get_resource_type(RESOURCE_TYPE, name) ==
    LET extension == _get_file_extension(name)
    IN  IF extension = None THEN RESOURCE_TYPE
        ELSE IF extension[1] \in static_images_extensions THEN RESOURCE_TYPES.IMAGE
        ELSE IF extension[1] \in static_videos_extensions THEN RESOURCE_TYPES.VIDEO
        ELSE RESOURCE_TYPE

_remove_extension_for_non_raw_file(RESOURCE_TYPE, name) ==
    LET file_resource_type == _get_resource_type(RESOURCE_TYPE, name)
    IN  IF file_resource_type = RESOURCE_TYPE THEN name
        ELSE SliceTo(name, -Len(_get_file_extension(name)[1]) - 1)

\* the request StaticCloudinaryStorage._upload sends to cloudinary.uploader.upload
Static_upload_request(RESOURCE_TYPE, name) ==
    [resource_type |-> _get_resource_type(RESOURCE_TYPE, name),
     public_id |-> _remove_extension_for_non_raw_file(RESOURCE_TYPE, name)]

----------------------------------------------------------------------------
(* BaseStorage.__init__: the settings resolver. *)

\* a value is falsy when it is None or the empty string
Truthy(v) == v # None /\ v[1] # <<>>

\* os.environ.get(key)
EnvGet(env, key) == IF key \in DOMAIN env THEN Some(env[key]) ELSE None

\* setting(name, default): user_settings.get(name, default)
setting(settings, name, default) ==
    IF name \in DOMAIN settings THEN Some(settings[name]) ELSE default

DefaultKeys ==
    {"cloud_name", "api_key", "api_secret", "secure", "media_tag",
     "invalid_video_error_message", "exclude_delete_orphaned_media_paths",
     "static_tag", "staticfiles_manifest_root", "static_images_extensions",
     "static_videos_extensions", "magic_file_path", "prefix"}

get_default_settings(settings, env) ==
    [name \in DefaultKeys |->
        CASE name = "cloud_name" ->
               setting(settings, "CLOUD_NAME", EnvGet(env, "CLOUDINARY_CLOUD_NAME"))
          [] name = "api_key" ->
               setting(settings, "API_KEY", EnvGet(env, "CLOUDINARY_API_KEY"))
          [] name = "api_secret" ->
               setting(settings, "API_SECRET", EnvGet(env, "CLOUDINARY_API_SECRET"))
          [] OTHER -> Some(<<"d">>)]

ImproperlyConfigured(text, name, cls) ==
    [exc |-> "ImproperlyConfigured", text |-> text, setting |-> name, cls |-> cls]

\* the loop over settings.items(): the attributes set, or the error raised
RECURSIVE ApplyOverrides(_, _, _, _)
ApplyOverrides(attrs, kwargs, default_settings, cls) ==
    IF kwargs = <<>> THEN [raised |-> None, attrs |-> attrs]
    ELSE IF Head(kwargs).name \notin DOMAIN default_settings
         THEN [raised |-> Some(ImproperlyConfigured("Invalid setting",
                                                    Some(Head(kwargs).name), cls)),
               attrs |-> attrs]
         ELSE ApplyOverrides([attrs EXCEPT ![Head(kwargs).name] = Head(kwargs).value],
                             Tail(kwargs), default_settings, cls)

\* variant: the credentials count as missing only when all three are empty
credentials_missing_when_all_empty(attrs) ==
    ~Truthy(attrs["cloud_name"]) /\ ~Truthy(attrs["api_key"]) /\ ~Truthy(attrs["api_secret"])

\* base.py:53
credentials_missing(attrs) ==
    ~Truthy(attrs["cloud_name"]) \/ ~Truthy(attrs["api_key"]) \/ ~Truthy(attrs["api_secret"])

\* the credentials check of __init__ on the resolved attributes
CheckCredentials(attrs, env, cls) ==
    IF credentials_missing(attrs)
    THEN IF ~Truthy(EnvGet(env, "CLOUDINARY_URL"))
         THEN [raised |-> Some(ImproperlyConfigured("credentials", None, cls)),
               attrs |-> attrs, configured |-> FALSE]
         ELSE [raised |-> None, attrs |-> attrs, configured |-> FALSE]
    ELSE [raised |-> None, attrs |-> attrs, configured |-> TRUE]

\* variant: the credentials are checked before the override keys
BaseStorage_init_credentials_first(cls, kwargs, settings, env) ==
    LET default_settings == get_default_settings(settings, env)
        known == SelectSeq(kwargs, LAMBDA kv : kv.name \in DOMAIN default_settings)
        applied == ApplyOverrides(default_settings, known, default_settings, cls)
        checked == CheckCredentials(applied.attrs, env, cls)
    IN  IF checked.raised # None THEN checked
        ELSE LET all == ApplyOverrides(default_settings, kwargs, default_settings, cls)
             IN  IF all.raised # None
                 THEN [raised |-> all.raised, attrs |-> all.attrs, configured |-> FALSE]
                 ELSE checked

BaseStorage_init(cls, kwargs, settings, env) ==
    LET default_settings == get_default_settings(settings, env)
        applied == ApplyOverrides(default_settings, kwargs, default_settings, cls)
    IN  IF applied.raised # None
        THEN [raised |-> applied.raised, attrs |-> applied.attrs, configured |-> FALSE]
        ELSE CheckCredentials(applied.attrs, env, cls)

\* self.RESOURCE_TYPE as the constructors set it
RESOURCE_TYPE(cls) ==
    CASE cls = "MediaCloudinaryStorage" -> RESOURCE_TYPES.IMAGE
      [] cls = "RawMediaCloudinaryStorage" -> RESOURCE_TYPES.RAW
      [] cls = "VideoMediaCloudinaryStorage" -> RESOURCE_TYPES.VIDEO
      [] OTHER -> RESOURCE_TYPES.RAW

----------------------------------------------------------------------------
(* HashCloudinaryMixin: the manifest.  A dict is the sequence of its        *)
(* <<key, value>> items in insertion order.                                *)

DictKeys(d) == {d[i][1] : i \in 1..Len(d)}

DictGet(d, k) == d[CHOOSE i \in 1..Len(d) : d[i][1] = k][2]

\* d[k] = v
DictSet(d, k, v) ==
    IF k \in DictKeys(d)
    THEN [i \in 1..Len(d) |-> IF d[i][1] = k THEN <<k, v>> ELSE d[i]]
    ELSE Append(d, <<k, v>>)

manifest_name == <<"s", ".", "j", "s", "o", "n">>
manifest_version == <<"1", ".", "0">>

\* the loop of add_unix_path_keys_to_paths over the items of paths.copy()
RECURSIVE AddUnixKeys(_, _)
AddUnixKeys(paths, todo) ==
    IF todo = <<>> THEN paths
    ELSE LET path == Head(todo)[1]
         IN  IF \E i \in 1..Len(path) : path[i] = "\\"
             THEN AddUnixKeys(DictSet(paths, clean_name(path), DictGet(paths, path)),
                              Tail(todo))
             ELSE AddUnixKeys(paths, Tail(todo))

add_unix_path_keys_to_paths(paths) == AddUnixKeys(paths, paths)

\* json.dumps of a str: a backslash is written as two
RECURSIVE JsonEscape(_)
JsonEscape(s) ==
    IF s = <<>> THEN <<>>
    ELSE (IF Head(s) = "\\" THEN <<"\\", "\\">> ELSE <<Head(s)>>) \o JsonEscape(Tail(s))

\* json.dumps(payload).encode('utf-8'): the members of the document, the
\* strings as they are written
json_dumps(payload) ==
    [paths |-> [i \in 1..Len(payload.paths) |->
                   <<JsonEscape(payload.paths[i][1]), JsonEscape(payload.paths[i][2])>>],
     version |-> JsonEscape(payload.version)]

\* FileSystemStorage: exists, delete, _save (which never overwrites: it
\* writes under another name when the name is taken), open
FS_exists(fs, name) == name \in DOMAIN fs

FS_delete(fs, name) == [n \in DOMAIN fs \ {name} |-> fs[n]]

FS_save(fs, name, contents) ==
    LET target == IF name \in DOMAIN fs THEN name \o <<"_", "1">> ELSE name
    IN  [n \in DOMAIN fs \cup {target} |-> IF n = target THEN contents ELSE fs[n]]

\* variant: the old manifest file is not deleted before the write
save_manifest_without_delete(hf, fs, os) ==
    LET paths == IF os = "nt" THEN add_unix_path_keys_to_paths(hf) ELSE hf
        contents == json_dumps([paths |-> paths, version |-> manifest_version])
    IN  [hashed_files |-> paths, manifest_fs |-> FS_save(fs, manifest_name, contents)]

\* save_manifest: the adapter's hashed_files and the manifest files after it
save_manifest(hf, fs, os) ==
    LET paths == IF os = "nt" THEN add_unix_path_keys_to_paths(hf) ELSE hf
        fs1 == IF FS_exists(fs, manifest_name) THEN FS_delete(fs, manifest_name) ELSE fs
        contents == json_dumps([paths |-> paths, version |-> manifest_version])
    IN  [hashed_files |-> paths, manifest_fs |-> FS_save(fs1, manifest_name, contents)]

\* read_manifest: the file's text, or None when open raises IOError
read_manifest(fs) ==
    IF FS_exists(fs, manifest_name) THEN Some(fs[manifest_name]) ELSE None

----------------------------------------------------------------------------
(* The remote service: the account's resources, each under its resource    *)
(* type and public id, and the responses of its CDN.                       *)

Contents == {"c1", "c2"}

\* the md5 hex digest of a content
MD5(content) == IF content = "c1" THEN <<"0", "a", "1">> ELSE <<"f", "f", "2">>

\* len(content), as the CDN writes it in the content-length header
ContentLength(content) == IF content = "c1" THEN <<"1">> ELSE <<"2">>

\* int() of a header value
int(text) == IF text = <<"1">> THEN 1 ELSE 2

\* the ETag header of a resource: its digest in double quotes
ETagHeader(content) == <<"\"">> \o MD5(content) \o <<"\"">>

\* HashedFilesMixin.file_hash, copied into the static adapter: the first
\* characters of the md5 hex digest (12 of 32 there, 2 of 3 here)
file_hash(content) == SliceTo(MD5(content), 2)

\* the response to a HEAD or GET of a delivery URL, which names one resource
\* by its type and public id; fault is a failure of the service, answered
\* without the resource's headers
Response(rem, url, fault) ==
    IF fault THEN [status |-> 500, headers |-> EmptyMap, content |-> "none"]
    ELSE IF url \in DOMAIN rem
    THEN [status |-> 200,
          headers |-> ("ETAG" :> ETagHeader(rem[url])) @@
                      ("content-length" :> ContentLength(rem[url])),
          content |-> rem[url]]
    ELSE [status |-> 404, headers |-> EmptyMap, content |-> "none"]

\* cloudinary.uploader.upload with a public id: the resource is (over)written
Uploaded(rem, request, content) ==
    [k \in DOMAIN rem \cup {request} |-> IF k = request THEN content ELSE rem[k]]

\* cloudinary.uploader.destroy: the resource is removed
Destroyed(rem, request) == [k \in DOMAIN rem \ {request} |-> rem[k]]

\* the public id the service gives an upload with use_filename: the folder,
\* the file's name and the unique suffix it adds
AssignedId(folder, filename, suffix) ==
    (IF folder = <<>> THEN <<>> ELSE folder \o <<"/">>) \o filename \o suffix

UniqueSuffixes == {<<"_", "z">>}

----------------------------------------------------------------------------
(* BaseStorage and StaticCloudinaryStorage: the operations. *)

Value(v) == [kind |-> "return", val |-> v]
Raise(e) == [kind |-> "raise", val |-> e]

\* _get_url: the delivery URL, which the resource type and the public id fix
_get_url(cls, pfx, name) ==
    [resource_type |-> RESOURCE_TYPE(cls), public_id |-> _prepend_prefix_of(pfx, name)]

\* BaseStorage.exists on the response to its HEAD request
exists(response) ==
    IF response.status = 404 THEN Value(FALSE)
    ELSE IF response.status >= 400 THEN Raise("HTTPError")
    ELSE Value(TRUE)

\* BaseStorage.size on the response to its HEAD request
size(response) ==
    IF response.status = 200 THEN Value(Some(int(response.headers["content-length"])))
    ELSE Value(None)

\* BaseStorage._open on the response to its GET request
_open(response, name) ==
    IF response.status = 404 THEN Raise("IOError")
    ELSE IF response.status >= 400 THEN Raise("HTTPError")
    ELSE Value([name |-> name, content |-> response.content])

\* BaseStorage.delete: the destroy request it sends
delete_request(cls, name) == [resource_type |-> RESOURCE_TYPE(cls), public_id |-> name]

\* variant: the ETag is compared for equality with the hash
_exists_with_etag_by_equality(response, content) ==
    IF response.status = 404 THEN Value(FALSE)
    ELSE IF "ETAG" \notin DOMAIN response.headers THEN Raise("KeyError")
    ELSE Value(Split(response.headers["ETAG"], "\"")[2] = file_hash(content))

\* StaticCloudinaryStorage._exists_with_etag on the response to its HEAD
_exists_with_etag(response, content) ==
    IF response.status = 404 THEN Value(FALSE)
    ELSE IF "ETAG" \notin DOMAIN response.headers THEN Raise("KeyError")
    ELSE LET pieces == Split(response.headers["ETAG"], "\"")
         IN  IF Len(pieces) < 2 THEN Raise("IndexError")
             ELSE Value(StartsWith(pieces[2], file_hash(content)))

\* BaseStorage._save as the static adapter reaches it: the upload request
Static_save_request(cls, pfx, name) ==
    Static_upload_request(RESOURCE_TYPE(cls), _prepend_prefix_of(pfx, _normalise_name(name)))

\* the adapters at work: a media adapter and the hashed static adapter
Hashed == "StaticHashedCloudinaryStorage"
MediaClasses == {"MediaCloudinaryStorage"}
StaticClasses == {Hashed}

Names == {<<"a">>, <<"m", "/", "a">>, <<"a", ".", "p", "n", "g">>, <<"m", "\\", "a">>}
Prefixes == {<<>>, <<"/", "m">>}

----------------------------------------------------------------------------
(* Inputs. *)

\* every function from a subset of keys to values
PartialMaps(keys, values) == UNION {[d -> values] : d \in SUBSET keys}

StringValues == {<<>>, <<"x">>}

SettingsBlocks ==
    {b \in PartialMaps({"CLOUD_NAME", "API_KEY", "API_SECRET"}, StringValues) :
        \A k \in DOMAIN b : k # "CLOUD_NAME" => b[k] # <<>>}

Environments ==
    {e \in PartialMaps({"CLOUDINARY_CLOUD_NAME", "CLOUDINARY_API_KEY",
                        "CLOUDINARY_API_SECRET", "CLOUDINARY_URL"}, StringValues) :
        \A k \in DOMAIN e : k # "CLOUDINARY_URL" => e[k] # <<>>}

OverrideKeys == {"cloud_name", "api_key", "api_secret", "secure", "bogus"}
OverrideValues == {Some(<<>>), Some(<<"x">>)}

\* keyword arguments: ordered, with distinct names
RECURSIVE Overrides(_)
Overrides(n) ==
    IF n = 0 THEN {<<>>}
    ELSE LET shorter == Overrides(n - 1)
         IN  shorter \cup
             {Append(kw, [name |-> k, value |-> v]) :
                 kw \in {s \in shorter : Len(s) = n - 1},
                 k \in OverrideKeys, v \in OverrideValues}

DistinctNames(kw) == \A i, j \in 1..Len(kw) : kw[i].name = kw[j].name => i = j

Kwargs == {kw \in Overrides(MaxOverrides) : DistinctNames(kw)}

NameSegments ==
    {<<"a">>, <<>>, <<"p", "n", "g">>, <<"P", "N", "G">>, <<"P", "n", "g">>,
     <<"m", "p", "4">>, <<"M", "O", "V">>, <<"t", "x", "t">>,
     <<"p", "n", "g", "/", "a">>, <<"d", "/", "a">>}

\* names of up to n segments joined by dots
RECURSIVE DottedNames(_)
DottedNames(n) ==
    IF n = 1 THEN NameSegments
    ELSE LET shorter == DottedNames(n - 1)
         IN  shorter \cup {s \o <<".">> \o g : s \in shorter, g \in NameSegments}

FileNames == DottedNames(MaxSegments)

MaxLengths == {None} \cup {Some(n) : n \in -3..4}

----------------------------------------------------------------------------
(* Construction of an adapter, in a process with some settings block and   *)
(* environment: Init draws the process state and the arguments, Construct  *)
(* runs __init__ on them.                                                  *)

ConfigClasses == {"MediaCloudinaryStorage", "StaticCloudinaryStorage"}

InitConfig ==
    /\ environ \in Environments
    /\ user_settings \in SettingsBlocks
    /\ prefix = <<>>
    /\ remote = EmptyMap
    /\ exists_attr = "BaseStorage.exists"
    /\ pp_pc = "idle"
    /\ original_exists = "BaseStorage.exists"
    /\ hashed_files = EmptyMap
    /\ manifest_fs = EmptyMap
    /\ os_name = "posix"
    /\ saved_paths = None
    /\ \E cls \in ConfigClasses, kwargs \in Kwargs :
           call = [op |-> "none", cls |-> cls, kwargs |-> kwargs, ret |-> None]

Construct ==
    /\ call.op = "none"
    /\ call' = [call EXCEPT !.op = "__init__",
                            !.ret = Some(BaseStorage_init(call.cls, call.kwargs,
                                                          user_settings, environ))]
    /\ UNCHANGED <<processVars, adapterVars, manifestVars>>

NextConfig == Construct

SpecConfig == InitConfig /\ [][NextConfig]_vars

----------------------------------------------------------------------------
(* The name operations: Init draws a file name and a max_length, the       *)
(* actions apply one operation to them.                                    *)

InitNames ==
    /\ environ = EmptyMap
    /\ user_settings = EmptyMap
    /\ prefix = <<>>
    /\ remote = EmptyMap
    /\ exists_attr = "BaseStorage.exists"
    /\ pp_pc = "idle"
    /\ original_exists = "BaseStorage.exists"
    /\ hashed_files = EmptyMap
    /\ manifest_fs = EmptyMap
    /\ os_name = "posix"
    /\ saved_paths = None
    /\ \E name \in FileNames, max_length \in MaxLengths :
           call = [op |-> "none", name |-> name, max_length |-> max_length, ret |-> None]

GetAvailableName ==
    /\ call.op = "none"
    /\ call' = [call EXCEPT !.op = "get_available_name",
                            !.ret = Some(get_available_name(call.name, call.max_length))]
    /\ UNCHANGED <<processVars, adapterVars, manifestVars>>

StaticUpload ==
    /\ call.op = "none"
    /\ call.max_length = None
    /\ call' = [call EXCEPT !.op = "_upload",
                            !.ret = Some(Static_upload_request(
                                             RESOURCE_TYPE("StaticCloudinaryStorage"),
                                             call.name))]
    /\ UNCHANGED <<processVars, adapterVars, manifestVars>>

NextNames == GetAvailableName \/ StaticUpload

SpecNames == InitNames /\ [][NextNames]_vars

----------------------------------------------------------------------------
(* The manifest of the hashed adapter: the framework's pass empties and     *)
(* fills hashed_files, save_manifest persists it, read_manifest reads it.   *)

ManifestKeys == {<<"a", "/", "b">>, <<"a", "\\", "b">>, <<"c">>}
HashedNames == {<<"h", "1">>, <<"h", "\\", "2">>}

InitManifest ==
    /\ environ = EmptyMap
    /\ user_settings = EmptyMap
    /\ prefix = <<>>
    /\ remote = EmptyMap
    /\ exists_attr = "BaseStorage.exists"
    /\ pp_pc = "idle"
    /\ original_exists = "BaseStorage.exists"
    /\ hashed_files = <<>>
    /\ manifest_fs = EmptyMap
    /\ os_name \in {"posix", "nt"}
    /\ saved_paths = None
    /\ call = [op |-> "none", ret |-> None]

\* ManifestFilesMixin.post_process starts from an empty map
ResetHashedFiles ==
    /\ hashed_files # <<>>
    /\ hashed_files' = <<>>
    /\ call' = [op |-> "reset", ret |-> None]
    /\ UNCHANGED <<processVars, adapterVars, manifest_fs, os_name, saved_paths>>

\* the pass records the hashed name of one file
SetHashedFile ==
    \E name \in ManifestKeys, hashed \in HashedNames :
        /\ name \in DictKeys(hashed_files) \/ Len(hashed_files) < MaxHashed
        /\ hashed_files' = DictSet(hashed_files, name, hashed)
        /\ call' = [op |-> "set", ret |-> None]
        /\ UNCHANGED <<processVars, adapterVars, manifest_fs, os_name, saved_paths>>

SaveManifest ==
    LET after == save_manifest(hashed_files, manifest_fs, os_name)
    IN  /\ hashed_files' = after.hashed_files
        /\ manifest_fs' = after.manifest_fs
        /\ saved_paths' = Some(after.hashed_files)
        /\ call' = [op |-> "save_manifest", ret |-> None]
        /\ UNCHANGED <<processVars, adapterVars, os_name>>

ReadManifest ==
    /\ call' = [op |-> "read_manifest", ret |-> read_manifest(manifest_fs)]
    /\ UNCHANGED <<processVars, adapterVars, manifestVars>>

NextManifest == ResetHashedFiles \/ SetHashedFile \/ SaveManifest \/ ReadManifest

SpecManifest == InitManifest /\ [][NextManifest]_vars

----------------------------------------------------------------------------
(* The adapters at work on one remote account. *)

Init ==
    /\ environ = EmptyMap
    /\ user_settings = EmptyMap
    /\ prefix \in Prefixes
    /\ remote = EmptyMap
    /\ exists_attr = "BaseStorage.exists"
    /\ pp_pc = "idle"
    /\ original_exists = "BaseStorage.exists"
    /\ hashed_files = EmptyMap
    /\ manifest_fs = EmptyMap
    /\ os_name = "posix"
    /\ saved_paths = None
    /\ call = [op |-> "none", cls |-> "none", name |-> <<>>, content |-> "none",
               ret |-> Value(None), head |-> None, uploads |-> <<>>,
               destroys |-> <<>>, repeat |-> FALSE]

Called(op, cls, name, content, ret, head, uploads, destroys) ==
    [op |-> op, cls |-> cls, name |-> name, content |-> content, ret |-> ret,
     head |-> head, uploads |-> uploads, destroys |-> destroys,
     repeat |-> /\ op = "_save"
                /\ call.op = "_save"
                /\ call.cls = cls
                /\ call.name = name
                /\ call.content = content
                /\ call.uploads # <<>>]

HasRoom(rem, request) ==
    request \in DOMAIN rem \/ Cardinality(DOMAIN rem) < MaxResources

\* BaseStorage._save of a media adapter
Save ==
    \E cls \in MediaClasses, name \in Names, content \in Contents,
       suffix \in UniqueSuffixes :
        LET stored == _prepend_prefix_of(prefix, _normalise_name(name))
            request == [resource_type |-> RESOURCE_TYPE(cls),
                        public_id |-> AssignedId(dirname(stored), basename(stored), suffix)]
        IN  /\ HasRoom(remote, request)
            /\ remote' = Uploaded(remote, request, content)
            /\ call' = Called("_save", cls, name, content, Value(request.public_id),
                              None, <<request>>, <<>>)
            /\ UNCHANGED <<processVars, prefix, exists_attr, pp_pc, original_exists,
                           manifestVars>>

\* StaticCloudinaryStorage._save
StaticSave ==
    \E cls \in StaticClasses, name \in Names, content \in Contents, fault \in BOOLEAN :
        LET cleaned == clean_name(name)
            response == Response(remote, _get_url(cls, prefix, cleaned), fault)
            found == _exists_with_etag(response, content)
            request == Static_save_request(cls, prefix, cleaned)
        IN  IF found.kind = "raise"
            THEN /\ call' = Called("_save", cls, name, content, found, Some(response),
                                   <<>>, <<>>)
                 /\ UNCHANGED <<processVars, adapterVars, manifestVars>>
            ELSE IF found.val
            THEN /\ call' = Called("_save", cls, name, content,
                                   Value(_prepend_prefix_of(prefix, cleaned)),
                                   Some(response), <<>>, <<>>)
                 /\ UNCHANGED <<processVars, adapterVars, manifestVars>>
            ELSE /\ HasRoom(remote, request)
                 /\ remote' = Uploaded(remote, request, content)
                 /\ call' = Called("_save", cls, name, content,
                                   Value(_prepend_prefix_of(prefix, cleaned)),
                                   Some(response), <<request>>, <<>>)
                 /\ UNCHANGED <<processVars, prefix, exists_attr, pp_pc,
                                original_exists, manifestVars>>

\* BaseStorage.delete
Delete ==
    \E cls \in MediaClasses \cup StaticClasses, name \in Names :
        LET request == delete_request(cls, name)
            result == IF request \in DOMAIN remote THEN "ok" ELSE "not found"
        IN  /\ remote' = Destroyed(remote, request)
            /\ call' = Called("delete", cls, name, "none", Value(result = "ok"),
                              None, <<>>, <<request>>)
            /\ UNCHANGED <<processVars, prefix, exists_attr, pp_pc, original_exists,
                           manifestVars>>

\* exists, as the attribute of the instance stands
Exists ==
    \E cls \in MediaClasses \cup StaticClasses, name \in Names, fault \in BOOLEAN :
        LET response == Response(remote, _get_url(cls, prefix, name), fault)
        IN  /\ IF cls = Hashed /\ exists_attr = "lambda: False"
               THEN call' = Called("exists", cls, name, "none", Value(FALSE),
                                   None, <<>>, <<>>)
               ELSE call' = Called("exists", cls, name, "none", exists(response),
                                   Some(response), <<>>, <<>>)
            /\ UNCHANGED <<processVars, adapterVars, manifestVars>>

\* BaseStorage.size
Size ==
    \E cls \in MediaClasses \cup StaticClasses, name \in Names, fault \in BOOLEAN :
        LET response == Response(remote, _get_url(cls, prefix, name), fault)
        IN  /\ call' = Called("size", cls, name, "none", size(response),
                              Some(response), <<>>, <<>>)
            /\ UNCHANGED <<processVars, adapterVars, manifestVars>>

\* BaseStorage._open
Open ==
    \E cls \in MediaClasses \cup StaticClasses, name \in Names, fault \in BOOLEAN :
        LET response == Response(remote, _get_url(cls, prefix, name), fault)
        IN  /\ call' = Called("_open", cls, name, "none", _open(response, name),
                              Some(response), <<>>, <<>>)
            /\ UNCHANGED <<processVars, adapterVars, manifestVars>>

Next ==
    \/ Save
    \/ StaticSave
    \/ Delete
    \/ Exists
    \/ Size
    \/ Open

Spec == Init /\ [][Next]_vars

----------------------------------------------------------------------------
(* The hashed adapter during and after runs of post_process: the framework  *)
(* asks exists and saves files while a run is under way, and so may anyone  *)
(* between runs.                                                           *)

\* post_process, to its first yield: exists is overwritten
PostProcessStart ==
    /\ pp_pc = "idle"
    /\ original_exists' = exists_attr
    /\ exists_attr' = "lambda: False"
    /\ pp_pc' = "running"
    /\ call' = Called("post_process.next", Hashed, <<>>, "none", Value(None),
                      None, <<>>, <<>>)
    /\ UNCHANGED <<processVars, prefix, remote, manifestVars>>

\* the framework's pass is exhausted: the statement after the loop runs
PostProcessEnd ==
    /\ pp_pc = "running"
    /\ exists_attr' = original_exists
    /\ pp_pc' = "idle"
    /\ call' = Called("post_process.end", Hashed, <<>>, "none", Value(None),
                      None, <<>>, <<>>)
    /\ UNCHANGED <<processVars, prefix, remote, original_exists, manifestVars>>

\* the caller stops iterating and the generator is closed at its yield
PostProcessAbandon ==
    /\ pp_pc = "running"
    /\ pp_pc' = "idle"
    /\ call' = Called("post_process.close", Hashed, <<>>, "none", Value(None),
                      None, <<>>, <<>>)
    /\ UNCHANGED <<processVars, prefix, remote, exists_attr, original_exists,
                   manifestVars>>

\* the framework's pass raises and the error leaves the generator
PostProcessError ==
    /\ pp_pc = "running"
    /\ pp_pc' = "idle"
    /\ call' = Called("post_process.raise", Hashed, <<>>, "none", Raise("Exception"),
                      None, <<>>, <<>>)
    /\ UNCHANGED <<processVars, prefix, remote, exists_attr, original_exists,
                   manifestVars>>

NextPostProcess ==
    \/ PostProcessStart
    \/ PostProcessEnd
    \/ PostProcessAbandon
    \/ PostProcessError
    \/ Exists
    \/ StaticSave
    \/ Delete

SpecPostProcess == Init /\ [][NextPostProcess]_vars

----------------------------------------------------------------------------
(* Claims about construction (SpecConfig). *)

\* the positions of the overrides whose name is no recognized setting
UnknownPositions(kw) == {i \in 1..Len(kw) : kw[i].name \notin DefaultKeys}

FirstOf(positions) == CHOOSE i \in positions : \A j \in positions : i <= j

\* the value a credential resolves to: the override if one is given, else the
\* settings block's entry if it has one, else the environment variable
ResolvedCredential(kw, attr, KEY, VAR) ==
    IF \E i \in 1..Len(kw) : kw[i].name = attr
    THEN kw[CHOOSE i \in 1..Len(kw) : kw[i].name = attr].value
    ELSE IF KEY \in DOMAIN user_settings THEN <<user_settings[KEY]>>
    ELSE IF VAR \in DOMAIN environ THEN <<environ[VAR]>>
    ELSE <<>>

NonEmpty(v) == Len(v) = 1 /\ Len(v[1]) > 0

AllCredentialsResolved(kw) ==
    /\ NonEmpty(ResolvedCredential(kw, "cloud_name", "CLOUD_NAME", "CLOUDINARY_CLOUD_NAME"))
    /\ NonEmpty(ResolvedCredential(kw, "api_key", "API_KEY", "CLOUDINARY_API_KEY"))
    /\ NonEmpty(ResolvedCredential(kw, "api_secret", "API_SECRET", "CLOUDINARY_API_SECRET"))

CombinedVariableSet ==
    "CLOUDINARY_URL" \in DOMAIN environ /\ Len(environ["CLOUDINARY_URL"]) > 0

\* C3: a construction whose overrides contain a key that is no recognized
\* setting raises ImproperlyConfigured "Invalid setting", naming the (first)
\* unrecognized key and the adapter's class, whatever the other overrides,
\* the settings block and the environment are.
C3_UnknownOverrideRejected ==
    (call.op = "__init__" /\ UnknownPositions(call.kwargs) # {}) =>
        LET raised == call.ret[1].raised
        IN  /\ raised # None
            /\ raised[1].exc = "ImproperlyConfigured"
            /\ raised[1].text = "Invalid setting"
            /\ raised[1].setting =
                   <<call.kwargs[FirstOf(UnknownPositions(call.kwargs))].name>>
            /\ raised[1].cls = call.cls

\* C3 witness: an unknown key after a recognized one, with no credentials
\* anywhere, is rejected by name.
C3_Witness ==
    /\ call.op = "__init__"
    /\ Len(call.kwargs) = 2
    /\ call.kwargs[1].name = "secure"
    /\ call.kwargs[2].name = "bogus"
    /\ environ = EmptyMap
    /\ user_settings = EmptyMap
    /\ call.ret[1].raised # None
    /\ call.ret[1].raised[1].setting = <<"bogus">>

\* C4: a construction with recognized override keys only raises nothing if
\* and only if the three resolved credentials are all non-empty or
\* CLOUDINARY_URL is set and non-empty; otherwise it raises the
\* ImproperlyConfigured error about the credentials.
C4_CredentialsDecideConstruction ==
    (call.op = "__init__" /\ UnknownPositions(call.kwargs) = {}) =>
        LET raised == call.ret[1].raised
        IN  /\ raised = None <=> (AllCredentialsResolved(call.kwargs) \/ CombinedVariableSet)
            /\ raised # None =>
                   /\ raised[1].exc = "ImproperlyConfigured"
                   /\ raised[1].text = "credentials"

\* C4 witness: a construction that succeeds with one credential from an
\* override, one from the settings block and one from the environment, and
\* no CLOUDINARY_URL.
C4_Witness ==
    /\ call.op = "__init__"
    /\ call.kwargs = <<[name |-> "cloud_name", value |-> <<(<<"x">>)>>]>>
    /\ DOMAIN user_settings = {"API_KEY"}
    /\ DOMAIN environ = {"CLOUDINARY_API_SECRET"}
    /\ call.ret[1].raised = None
    /\ call.ret[1].configured

----------------------------------------------------------------------------
(* Claims about names (SpecNames). *)

\* C5 as stated: get_available_name returns name unchanged when max_length
\* is absent, and otherwise a string of length at most max_length, for every
\* integer max_length, zero and negative values included.
C5_Original_AnyMaxLength ==
    call.op = "get_available_name" =>
        /\ call.max_length = <<>> => call.ret[1] = call.name
        /\ call.max_length # <<>> => Len(call.ret[1]) <= call.max_length[1]

\* C5 amended: get_available_name returns name unchanged when max_length is
\* absent, and for every non-negative max_length (zero included) the first
\* max_length characters of name, a string of length at most max_length.
C5_NonNegativeMaxLength ==
    call.op = "get_available_name" =>
        /\ call.max_length = <<>> => call.ret[1] = call.name
        /\ (call.max_length # <<>> /\ call.max_length[1] >= 0) =>
               /\ Len(call.ret[1]) <= call.max_length[1]
               /\ \A i \in 1..Len(call.ret[1]) : call.ret[1][i] = call.name[i]

\* C5 witness: a name longer than max_length is cut to max_length.
C5_Witness ==
    /\ call.op = "get_available_name"
    /\ call.max_length = <<2>>
    /\ Len(call.name) > 2
    /\ Len(call.ret[1]) = 2

\* C6: the static adapter's upload of a name whose lowercased text after the
\* last dot is an image (video) extension sends the name without that dot and
\* extension as public id, with resource type image (video); a name with no
\* dot, or with another extension, is sent unchanged with resource type raw.
C6_UploadPublicIdAndType ==
    call.op = "_upload" =>
        LET name == call.name
            dots == {i \in 1..Len(name) : name[i] = "."}
            last == CHOOSE i \in dots : \A j \in dots : j <= i
            ext == Lower(SubSeq(name, last + 1, Len(name)))
            stem == SubSeq(name, 1, last - 1)
            sent == call.ret[1]
        IN  IF dots = {} THEN sent = [resource_type |-> "raw", public_id |-> name]
            ELSE IF ext \in static_images_extensions
                 THEN sent = [resource_type |-> "image", public_id |-> stem]
            ELSE IF ext \in static_videos_extensions
                 THEN sent = [resource_type |-> "video", public_id |-> stem]
            ELSE sent = [resource_type |-> "raw", public_id |-> name]

\* C6 witness: "a.a.PNG" is uploaded as the image "a.a".
C6_Witness ==
    /\ call.op = "_upload"
    /\ call.name = <<"a", ".", "a", ".", "P", "N", "G">>
    /\ call.ret[1] = [resource_type |-> "image", public_id |-> <<"a", ".", "a">>]

----------------------------------------------------------------------------
(* Claims about the manifest (SpecManifest). *)

\* json.loads of a written str
RECURSIVE JsonUnescape(_)
JsonUnescape(s) ==
    IF s = <<>> THEN <<>>
    ELSE IF Head(s) = "\\" THEN <<s[2]>> \o JsonUnescape(Tail(Tail(s)))
    ELSE <<Head(s)>> \o JsonUnescape(Tail(s))

\* the object a written "paths" member denotes: a later member wins
LoadedPaths(doc) ==
    LET keys == {JsonUnescape(doc.paths[i][1]) : i \in 1..Len(doc.paths)}
    IN  [k \in keys |->
            LET at == {i \in 1..Len(doc.paths) : JsonUnescape(doc.paths[i][1]) = k}
            IN  JsonUnescape(doc.paths[CHOOSE i \in at : \A j \in at : j <= i][2])]

\* the mapping a dict holds
DictAsMap(d) == [k \in DictKeys(d) |-> DictGet(d, k)]

\* C7: read_manifest returns None while no manifest was saved, and after
\* any sequence of save_manifest calls the document whose paths is exactly
\* the hashed-name map of the last save_manifest and whose version is the
\* manifest version.
C7_ManifestRoundTrip ==
    call.op = "read_manifest" =>
        IF saved_paths = <<>> THEN call.ret = <<>>
        ELSE /\ call.ret # <<>>
             /\ LoadedPaths(call.ret[1]) = DictAsMap(saved_paths[1])
             /\ JsonUnescape(call.ret[1].version) = manifest_version

\* C7 witness: after at least one save_manifest, read_manifest returns the
\* document of the one-entry map the last save_manifest saw.
C7_Witness ==
    /\ call.op = "read_manifest"
    /\ call.ret # <<>>
    /\ saved_paths = << << <<(<<"c">>), <<"h", "1">> >> >> >>
    /\ DOMAIN LoadedPaths(call.ret[1]) = {<<"c">>}

\* C7 (second part) witness: read_manifest before any save_manifest.
C7_WitnessNoManifest ==
    /\ call.op = "read_manifest"
    /\ saved_paths = <<>>
    /\ call.ret = <<>>

----------------------------------------------------------------------------
(* Claims about the adapters' operations (Spec; C9: SpecPostProcess). *)

\* the text between the double quotes of an ETag header
UnquotedETag(header) == SubSeq(header, 2, Len(header) - 1)

\* whether text begins with the characters of start
BeginsWith(text, start) ==
    Len(start) <= Len(text) /\ \A i \in 1..Len(start) : text[i] = start[i]

\* C1: the static adapter's _save, on the response to its HEAD request: when
\* the status is not 404 and the unquoted ETag starts with the content hash of
\* the file, nothing is uploaded; when the status is 404, or the ETag does not
\* start with the hash, exactly one upload is made; both times the
\* prefix-prepended (cleaned) name is returned.
C1_SaveSkipsUploadOnMatchingETag ==
    (call.op = "_save" /\ call.cls \in StaticClasses) =>
        LET response == call.head[1]
            tagged == "ETAG" \in DOMAIN response.headers
            matches == /\ tagged
                       /\ BeginsWith(UnquotedETag(response.headers["ETAG"]),
                                     file_hash(call.content))
            stored == _prepend_prefix_of(prefix, clean_name(call.name))
        IN  /\ (response.status # 404 /\ matches) =>
                   /\ call.uploads = <<>>
                   /\ call.ret = Value(stored)
            /\ (response.status = 404 \/ (tagged /\ ~matches)) =>
                   /\ Len(call.uploads) = 1
                   /\ call.ret = Value(stored)

\* C1 witness: a _save that found the content's ETag and uploaded nothing.
C1_Witness ==
    /\ call.op = "_save"
    /\ call.cls \in StaticClasses
    /\ call.head # <<>>
    /\ call.head[1].status = 200
    /\ call.uploads = <<>>
    /\ call.ret.kind = "return"

\* C1 witness of the other case: a _save that found another content's ETag
\* and uploaded once.
C1_WitnessUpload ==
    /\ call.op = "_save"
    /\ call.cls \in StaticClasses
    /\ call.head # <<>>
    /\ call.head[1].status = 200
    /\ Len(call.uploads) = 1

\* C2: a static _save that immediately follows a static _save of the same
\* name and content which uploaded the file performs no upload, whatever the
\* resource type of the name.
C2_RepeatedSaveUploadsNothing ==
    (call.op = "_save" /\ call.cls \in StaticClasses /\ call.repeat) =>
        call.uploads = <<>>

\* C8: exists and size map the status of the HEAD response the same way: 404
\* is absent (False, None), 200 is present (True, the content length), and
\* every other status makes both raise.
C8_ExistsAndSizeMapStatusAlike ==
    (call.op \in {"exists", "size"} /\ call.head # <<>>) =>
        LET status == call.head[1].status
            url == [resource_type |-> RESOURCE_TYPE(call.cls),
                    public_id |-> _prepend_prefix_of(prefix, call.name)]
        IN  /\ status = 404 =>
                   /\ call.ret.kind = "return"
                   /\ call.op = "exists" => call.ret.val = FALSE
                   /\ call.op = "size" => call.ret.val = <<>>
            /\ status = 200 =>
                   /\ call.ret.kind = "return"
                   /\ call.op = "exists" => call.ret.val = TRUE
                   /\ call.op = "size" =>
                          call.ret.val = <<IF remote[url] = "c1" THEN 1 ELSE 2>>
            /\ status \notin {200, 404} => call.ret.kind = "raise"

\* C9: exists of the hashed adapter answers False without a request while a
\* post_process run is under way, and answers from the HEAD request whenever
\* no run is under way, however the last run ended.
C9_ExistsRestoredAfterPostProcess ==
    (call.op = "exists" /\ call.cls = Hashed) =>
        /\ pp_pc = "running" => (call.head = <<>> /\ call.ret = Value(FALSE))
        /\ pp_pc = "idle" => call.head # <<>>

\* C10: delete(name) destroys the resource exists(name) asks for, the one
\* under the prefix-prepended name, so that after a delete that returned True
\* that resource is gone.
C10_DeleteAddressesPrefixedName ==
    call.op = "delete" =>
        LET resolved == [resource_type |-> RESOURCE_TYPE(call.cls),
                         public_id |-> _prepend_prefix_of(prefix, call.name)]
        IN  /\ call.destroys = <<resolved>>
            /\ call.ret.val => resolved \notin DOMAIN remote

====
